---- MODULE Spec2Model ----
(***************************************************************************)
(* Drag-and-drop reordering of sweeten's Row and Column containers:        *)
(* the Action state machine of Row::update / Column::update, the           *)
(* target-index computation and the per-slot offset animations.            *)
(*                                                                         *)
(* The two widgets are the same code with the main axis swapped            *)
(* (x/width for Row, y/height for Column); `axis` selects the widget.      *)
(* Pixels are integers; the distance test |p - origin| > deadband is       *)
(* computed on squares, which is the same comparison for non-negative      *)
(* deadbands.                                                              *)
(*                                                                         *)
(* Further down: the flex layout resolver of layout/flex.rs as a function  *)
(* applied to drawn arguments (SpecFlex), the event handling of            *)
(* widget/mouse_area.rs (SpecArea), and the idle easing loop of the        *)
(* containers under fair redraw ticks (SpecIdle).                          *)
(***************************************************************************)
EXTENDS Integers, Sequences, FiniteSets, TLC

\* ---------------------------------------------------------------- bounds
MaxChildren == 3      \* most children a rebuild gives the container
MaxMain == 3          \* the cursor's main-axis coordinate is GridStep * (0..MaxMain)
GridStep == 5         \* the grid the cursor moves on
Spacing == 1          \* self.spacing

\* ------------------------------------------------------------- constants
DRAG_DEADBAND_DISTANCE == 5

VARIABLES
    axis,       \* "Row" or "Column": which widget this is
    on_drag,    \* self.on_drag.is_some()
    children,   \* self.children.len()
    action,     \* tree.state: the Action
    event,      \* the last step: the kind of event update matched on ("None" if
                \* it matched on none) and the variant the Action had before it
    shell,      \* what that update did to the Shell
    targetIn,   \* inputs of the compute_target_index, reordering and flex harnesses
    targetOut,  \* their results
    area        \* a MouseArea: its handlers, its State, and its last update

dragVars == <<axis, on_drag, children, action, event, shell>>
targetVars == <<targetIn, targetOut>>
vars == <<axis, on_drag, children, action, event, shell, targetIn, targetOut, area>>

\* ------------------------------------------------------------- geometry
Axes == {"Row", "Column"}

\* Option<T>: None is <<>>, Some(v) is <<v>>.
None == <<>>
Some(v) == <<v>>
IsSome(o) == o # <<>>
Unwrap(o) == o[1]

\* A Point of the widget whose main axis is ax, from (main, cross).
Pack(ax, main, cross) ==
    IF ax = "Row" THEN [x |-> main, y |-> cross] ELSE [x |-> cross, y |-> main]

\* The cursor moves along the main axis, on a grid.
Points(ax) == {Pack(ax, GridStep * k, 0) : k \in 0..MaxMain}

\* mouse::Cursor: position() is None or Some(point).
Cursors(ax) == {None} \cup {Some(p) : p \in Points(ax)}

\* A main coordinate that is x on both axes.
MainCoord_AlwaysX(ax, p) == p.x

\* cursor_position.x in row.rs, cursor_position.y in column.rs
MainCoord(ax, p) == IF ax = "Row" THEN p.x ELSE p.y

\* bounds.x / bounds.y and bounds.width / bounds.height
MainPos(ax, r) == IF ax = "Row" THEN r.x ELSE r.y
MainExtent(ax, r) == IF ax = "Row" THEN r.width ELSE r.height

Rect(ax, main, cross, mainExtent, crossExtent) ==
    IF ax = "Row"
    THEN [x |-> main, y |-> cross, width |-> mainExtent, height |-> crossExtent]
    ELSE [x |-> cross, y |-> main, width |-> crossExtent, height |-> mainExtent]

\* Rectangle::contains, as used by cursor.position_over(bounds)
Contains(r, p) ==
    /\ r.x <= p.x /\ p.x < r.x + r.width
    /\ r.y <= p.y /\ p.y < r.y + r.height

position_over(cursor, r) ==
    IF IsSome(cursor) /\ Contains(r, Unwrap(cursor)) THEN cursor ELSE None

\* Point::distance(a, b) > d, on squares
DistanceExceeds(a, b, d) ==
    (a.x - b.x) * (a.x - b.x) + (a.y - b.y) * (a.y - b.y) > d * d

\* The natural main-axis size of child i: children differ in size.
ChildExtent(i) == 4 + (i % 2)

RECURSIVE ChildStart(_)
ChildStart(i) == IF i = 0 THEN 1 ELSE ChildStart(i - 1) + ChildExtent(i - 1) + Spacing

\* The layout of a container of n children: a fixed-size container whose
\* leading edge is at 1 and that ends before the last grid point, children
\* packed from the leading edge with spacing.
Layout(ax, n) ==
    [bounds |-> Rect(ax, 1, 0, GridStep * MaxMain - 1, 1),
     children |-> [i \in 1..n |-> Rect(ax, ChildStart(i - 1), 0, ChildExtent(i - 1), 1)]]

\* ------------------------------------------------- target-index computation
Min(S) == CHOOSE m \in S : \A k \in S : m <= k

\* usize::saturating_sub
saturating_sub(a, b) == IF a >= b THEN a - b ELSE 0

\* The children whose trailing edge is at or after the cursor.
ChildrenEndingAfter(ax, cursor_x, layout) ==
    {i \in 0..(Len(layout.children) - 1) :
        cursor_x <= MainPos(ax, layout.children[i + 1])
                    + MainExtent(ax, layout.children[i + 1])}

\* A scan with < for <=.
compute_target_index_Strict(ax, cursor_position, layout, n) ==
    LET cursor_x == MainCoord(ax, cursor_position)
        hit == {i \in 0..(Len(layout.children) - 1) :
                   cursor_x < MainPos(ax, layout.children[i + 1])
                              + MainExtent(ax, layout.children[i + 1])}
    IN  IF cursor_x < MainPos(ax, layout.bounds) THEN 0
        ELSE IF hit # {} THEN Min(hit)
        ELSE saturating_sub(n, 1)

\* A scan for the child that contains the cursor.
compute_target_index_HitTest(ax, cursor_position, layout, n) ==
    LET cursor_x == MainCoord(ax, cursor_position)
        hit == {i \in ChildrenEndingAfter(ax, cursor_x, layout) :
                   MainPos(ax, layout.children[i + 1]) <= cursor_x}
    IN  IF cursor_x < MainPos(ax, layout.bounds) THEN 0
        ELSE IF hit # {} THEN Min(hit)
        ELSE saturating_sub(n, 1)

\* Row::compute_target_index / Column::compute_target_index.
\* n is self.children.len(); indices are 0-based as in the source.
compute_target_index(ax, cursor_position, layout, n) ==
    LET cursor_x == MainCoord(ax, cursor_position)
        hit == ChildrenEndingAfter(ax, cursor_x, layout)
    IN  IF cursor_x < MainPos(ax, layout.bounds) THEN 0
        ELSE IF hit # {} THEN Min(hit)
        ELSE saturating_sub(n, 1)

\* ------------------------------------------------------------ animations
\* Animation<f32>, as far as the containers use it: `value` is the value the
\* animation is going to, `start` the Instant its running transition started
\* (None: at rest since it was created).
\*
\* An Instant is kept as its age, counted in transition durations: Now is the
\* present, and an instant one duration or more in the past is kept as
\* Now + 1, because update reads a stored Instant only through
\* Animation::is_animating, which asks whether less than one duration has
\* passed since it.
Now == 0

\* the same Instant, one transition duration later
Elapse(t) == IF t = Now THEN Now + 1 ELSE t

ElapseOption(o) == IF IsSome(o) THEN Some(Elapse(Unwrap(o))) ELSE None

Animation_new(v) == [value |-> v, start |-> None]

\* Animation::is_animating
is_animating(a, now) == IsSome(a.start) /\ Unwrap(a.start) - now < 1

\* Animation::go_mut: start a transition to `target` at `at`; going to the
\* value already targeted changes nothing.
go_mut(a, target, at) ==
    IF a.value = target THEN a ELSE [value |-> target, start |-> Some(at)]

\* ItemAnimations::zero
zero(offsets) == [i \in 1..Len(offsets) |-> Animation_new(0)]

\* An is_animating that counts every slot holding a transition, finished
\* or not.
any_animating_AnyTransition(offsets, now) ==
    \E i \in 1..Len(offsets) : IsSome(offsets[i].start)

\* ItemAnimations::is_animating
any_animating(offsets, now) == \E i \in 1..Len(offsets) : is_animating(offsets[i], now)

\* A with_capacity that leaves growing for later.
with_capacity_NeverGrows(offsets, count) == offsets

\* A with_capacity that resizes to the count, dropping the slots beyond it.
with_capacity_Resize(offsets, count) ==
    [i \in 1..count |-> IF i <= Len(offsets) THEN offsets[i] ELSE Animation_new(0)]

\* ItemAnimations::with_capacity: grows, never shrinks
with_capacity(offsets, count) ==
    IF Len(offsets) < count
    THEN [i \in 1..count |-> IF i <= Len(offsets) THEN offsets[i] ELSE Animation_new(0)]
    ELSE offsets

\* --------------------------------------------------------------- Action
Idle(now, animations) == [tag |-> "Idle", now |-> now, animations |-> animations]

Picking(index, origin, now, animations) ==
    [tag |-> "Picking", index |-> index, origin |-> origin, now |-> now,
     animations |-> animations]

Dragging(index, origin, last_cursor, now, animations) ==
    [tag |-> "Dragging", index |-> index, origin |-> origin,
     last_cursor |-> last_cursor, now |-> now, animations |-> animations]

\* DragEvent
Picked(index) == [type |-> "Picked", index |-> index]
Dropped(index, target_index) ==
    [type |-> "Dropped", index |-> index, target_index |-> target_index]
Canceled(index) == [type |-> "Canceled", index |-> index]

\* Shell: the messages published, capture_event and request_redraw of one update
EmptyShell == [published |-> <<>>, captured |-> FALSE, redraw |-> FALSE]

\* ------------------------------------------------- Row::update / Column::update
\* Each handler below is one arm of the `match &event` of update, as a
\* function of the Action `a`, the cursor, the child count n, whether a
\* handler is registered, and Instant::now(); its result is the new Action
\* and what was done to the Shell.
Outcome(a, sh) == [action |-> a, shell |-> sh]

\* A shift whose range after the dragged slot stops short of the target.
target_offset_ExclusiveEnd(i, index, target_index, drag_width) ==
    IF target_index < index /\ target_index <= i /\ i < index THEN drag_width
    ELSE IF target_index > index /\ index + 1 <= i /\ i < target_index THEN 0 - drag_width
    ELSE 0

\* A shift whose range before the dragged slot leaves out the target.
target_offset_SkipsTarget(i, index, target_index, drag_width) ==
    IF target_index < index /\ target_index < i /\ i < index THEN drag_width
    ELSE IF target_index > index /\ index + 1 <= i /\ i <= target_index THEN 0 - drag_width
    ELSE 0

\* The offset a sibling slot i is sent to (the `match target_index.cmp(index)`)
target_offset(i, index, target_index, drag_width) ==
    IF target_index < index /\ target_index <= i /\ i < index THEN drag_width
    ELSE IF target_index > index /\ index + 1 <= i /\ i <= target_index THEN 0 - drag_width
    ELSE 0

\* layout.children().nth(index): bounds().width + self.spacing, else 0.0
drag_extent(ax, layout, index) ==
    IF index < Len(layout.children)
    THEN MainExtent(ax, layout.children[index + 1]) + Spacing
    ELSE 0

\* A redraw tick that keeps the easing loop running whatever the slots do.
OnRedrawRequested_IdleAlwaysRedraws(a, now) ==
    IF a.tag = "Idle"
    THEN Outcome([a EXCEPT !.now = Some(now)], [EmptyShell EXCEPT !.redraw = TRUE])
    ELSE Outcome([a EXCEPT !.now = now], [EmptyShell EXCEPT !.redraw = TRUE])

\* A redraw tick that puts the slots at rest once no slot is animating.
OnRedrawRequested_SettlesSlots(a, now) ==
    IF a.tag = "Idle"
    THEN IF any_animating(a.animations, now)
         THEN Outcome([a EXCEPT !.now = Some(now)], [EmptyShell EXCEPT !.redraw = TRUE])
         ELSE Outcome([a EXCEPT !.now = Some(now), !.animations = zero(@)], EmptyShell)
    ELSE Outcome([a EXCEPT !.now = now], [EmptyShell EXCEPT !.redraw = TRUE])

\* Event::Window(RedrawRequested(now))
OnRedrawRequested(a, now) ==
    IF a.tag = "Idle"
    THEN Outcome([a EXCEPT !.now = Some(now)],
                 [EmptyShell EXCEPT !.redraw = any_animating(a.animations, now)])
    ELSE Outcome([a EXCEPT !.now = now], [EmptyShell EXCEPT !.redraw = TRUE])

\* A press that forgets animations.zero().
OnButtonPressed_KeepsAnimations(ax, a, cursor, n, handler, t) ==
    LET layout == Layout(ax, n)
        over == position_over(cursor, layout.bounds)
    IN  IF handler /\ IsSome(over)
        THEN Outcome(Picking(compute_target_index(ax, Unwrap(over), layout, n),
                             Unwrap(over), t, a.animations),
                     [EmptyShell EXCEPT !.captured = TRUE, !.redraw = TRUE])
        ELSE Outcome(a, EmptyShell)

\* A press that starts a drag wherever the cursor is.
OnButtonPressed_IgnoresBounds(ax, a, cursor, n, handler, t) ==
    LET layout == Layout(ax, n)
    IN  IF handler /\ IsSome(cursor)
        THEN LET cursor_position == Unwrap(cursor)
                 index == compute_target_index(ax, cursor_position, layout, n)
             IN  Outcome(Picking(index, cursor_position, t, zero(a.animations)),
                         [EmptyShell EXCEPT !.captured = TRUE, !.redraw = TRUE])
        ELSE Outcome(a, EmptyShell)

\* Event::Mouse(ButtonPressed(Left))
OnButtonPressed(ax, a, cursor, n, handler, t) ==
    LET layout == Layout(ax, n)
        over == position_over(cursor, layout.bounds)
    IN  IF handler /\ IsSome(over)
        THEN LET cursor_position == Unwrap(over)
                 index == compute_target_index(ax, cursor_position, layout, n)
             IN  Outcome(Picking(index, cursor_position, t, zero(a.animations)),
                         [EmptyShell EXCEPT !.captured = TRUE, !.redraw = TRUE])
        ELSE Outcome(a, EmptyShell)

\* The Picking -> Dragging step of a move
StartDragging(a, cursor_position, handler) ==
    Outcome(Dragging(a.index, a.origin, cursor_position, a.now, a.animations),
            [published |-> IF handler THEN <<Picked(a.index)>> ELSE <<>>,
             captured |-> TRUE, redraw |-> TRUE])

\* A deadband test with >= for >.
OnCursorMovedPicking_AtDeadband(a, cursor, handler) ==
    IF IsSome(cursor)
       /\ (Unwrap(cursor).x - a.origin.x) * (Unwrap(cursor).x - a.origin.x)
          + (Unwrap(cursor).y - a.origin.y) * (Unwrap(cursor).y - a.origin.y)
          >= DRAG_DEADBAND_DISTANCE * DRAG_DEADBAND_DISTANCE
    THEN StartDragging(a, Unwrap(cursor), handler)
    ELSE Outcome(a, EmptyShell)

\* Event::Mouse(CursorMoved), Action::Picking
OnCursorMovedPicking(a, cursor, handler) ==
    IF IsSome(cursor) /\ DistanceExceeds(Unwrap(cursor), a.origin, DRAG_DEADBAND_DISTANCE)
    THEN StartDragging(a, Unwrap(cursor), handler)
    ELSE Outcome(a, EmptyShell)

\* Event::Mouse(CursorMoved), Action::Dragging, a cursor position available
OnDragMove(ax, a, cursor_position, n, t) ==
    LET layout == Layout(ax, n)
        grown == with_capacity(a.animations, n)
        target_index == compute_target_index(ax, cursor_position, layout, n)
        drag_width == drag_extent(ax, layout, a.index)
        offsets == [i \in 1..Len(grown) |->
                      IF i - 1 = a.index
                      THEN go_mut(grown[i], 1, t)
                      ELSE go_mut(grown[i],
                                  target_offset(i - 1, a.index, target_index, drag_width),
                                  t)]
    IN  Outcome(Dragging(a.index, a.origin, cursor_position, a.now, offsets),
                [EmptyShell EXCEPT !.captured = TRUE, !.redraw = TRUE])

\* Event::Mouse(CursorMoved), Action::Dragging, no cursor position
OnDragCancel(a, handler) ==
    Outcome(Idle(Some(a.now), a.animations),
            [published |-> IF handler THEN <<Canceled(a.index)>> ELSE <<>>,
             captured |-> FALSE, redraw |-> TRUE])

\* A drag that is canceled as soon as the cursor leaves the container.
OnCursorMovedDragging_CancelsOutside(ax, a, cursor, n, handler, t) ==
    IF IsSome(position_over(cursor, Layout(ax, n).bounds))
    THEN OnDragMove(ax, a, Unwrap(cursor), n, t)
    ELSE OnDragCancel(a, handler)

\* A cancel that resets the animations.
OnCursorMovedDragging_CancelResets(ax, a, cursor, n, handler, t) ==
    IF IsSome(cursor) THEN OnDragMove(ax, a, Unwrap(cursor), n, t)
    ELSE [OnDragCancel(a, handler) EXCEPT !.action.animations = zero(a.animations)]

\* Event::Mouse(CursorMoved), Action::Dragging
OnCursorMovedDragging(ax, a, cursor, n, handler, t) ==
    IF IsSome(cursor) THEN OnDragMove(ax, a, Unwrap(cursor), n, t)
    ELSE OnDragCancel(a, handler)

\* Event::Mouse(CursorMoved)
OnCursorMoved(ax, a, cursor, n, handler, t) ==
    CASE a.tag = "Picking" -> OnCursorMovedPicking(a, cursor, handler)
      [] a.tag = "Dragging" -> OnCursorMovedDragging(ax, a, cursor, n, handler, t)
      [] OTHER -> Outcome(a, EmptyShell)

\* A drop that resolves the cursor against the layout the slots were sized
\* for instead of the layout of the release.
OnReleaseDrop_StaleLayout(ax, a, cursor_position, n, handler, t) ==
    LET stale == Len(a.animations)
        target_index == compute_target_index(ax, cursor_position, Layout(ax, stale), stale)
    IN  Outcome(Idle(Some(a.now), with_capacity(a.animations, n)),
                [published |-> IF handler
                               THEN <<Dropped(a.index, target_index)>>
                               ELSE <<>>,
                 captured |-> handler, redraw |-> TRUE])

\* A drop that eases the dragged slot back like any other slot.
OnReleaseDrop_EasesDragged(ax, a, cursor_position, n, handler, t) ==
    LET layout == Layout(ax, n)
        grown == with_capacity(a.animations, n)
        target_index == compute_target_index(ax, cursor_position, layout, n)
        drag_width == drag_extent(ax, layout, a.index)
        offsets == [i \in 1..Len(grown) |->
                      go_mut(grown[i],
                             target_offset(i - 1, a.index, target_index, drag_width), t)]
    IN  Outcome(Idle(Some(a.now), offsets),
                [published |-> IF handler
                               THEN <<Dropped(a.index, target_index)>>
                               ELSE <<>>,
                 captured |-> handler, redraw |-> TRUE])

\* Event::Mouse(ButtonReleased(Left)), Action::Dragging, a cursor position
\* available: the slots are retargeted, the dragged one set at rest.
OnReleaseDrop(ax, a, cursor_position, n, handler, t) ==
    LET layout == Layout(ax, n)
        grown == with_capacity(a.animations, n)
        target_index == compute_target_index(ax, cursor_position, layout, n)
        drag_width == drag_extent(ax, layout, a.index)
        offsets == [i \in 1..Len(grown) |->
                      LET to == target_offset(i - 1, a.index, target_index, drag_width)
                      IN  IF i - 1 = a.index
                          THEN Animation_new(to)
                          ELSE go_mut(grown[i], to, t)]
    IN  Outcome(Idle(Some(a.now), offsets),
                [published |-> IF handler
                               THEN <<Dropped(a.index, target_index)>>
                               ELSE <<>>,
                 captured |-> handler, redraw |-> TRUE])

\* Event::Mouse(ButtonReleased(Left)), Action::Dragging, no cursor position
OnReleaseCancel(a, n, handler) ==
    Outcome(Idle(Some(a.now), with_capacity(a.animations, n)),
            [published |-> IF handler THEN <<Canceled(a.index)>> ELSE <<>>,
             captured |-> handler, redraw |-> TRUE])

\* A release without a cursor position that publishes nothing.
OnButtonReleasedDragging_SilentCancel(ax, a, cursor, n, handler, t) ==
    IF IsSome(cursor) THEN OnReleaseDrop(ax, a, Unwrap(cursor), n, handler, t)
    ELSE [OnReleaseCancel(a, n, handler) EXCEPT !.shell.published = <<>>]

\* A drop at the position of the last move instead of the release.
OnButtonReleasedDragging_StaleTarget(ax, a, cursor, n, handler, t) ==
    IF IsSome(cursor) THEN OnReleaseDrop(ax, a, a.last_cursor, n, handler, t)
    ELSE OnReleaseCancel(a, n, handler)

\* A cancel on release that does not capture the event.
OnButtonReleasedDragging_UncapturedCancel(ax, a, cursor, n, handler, t) ==
    IF IsSome(cursor) THEN OnReleaseDrop(ax, a, Unwrap(cursor), n, handler, t)
    ELSE [OnReleaseCancel(a, n, handler) EXCEPT !.shell.captured = FALSE]

\* Event::Mouse(ButtonReleased(Left)), Action::Dragging
OnButtonReleasedDragging(ax, a, cursor, n, handler, t) ==
    IF IsSome(cursor) THEN OnReleaseDrop(ax, a, Unwrap(cursor), n, handler, t)
    ELSE OnReleaseCancel(a, n, handler)

\* A release while Picking that reports a cancel.
OnButtonReleased_PickingCancels(ax, a, cursor, n, handler, t) ==
    CASE a.tag = "Dragging" -> OnButtonReleasedDragging(ax, a, cursor, n, handler, t)
      [] a.tag = "Picking" ->
            Outcome(Idle(Some(a.now), a.animations),
                    [published |-> <<Canceled(a.index)>>, captured |-> FALSE,
                     redraw |-> TRUE])
      [] OTHER -> Outcome(a, [EmptyShell EXCEPT !.redraw = TRUE])

\* Event::Mouse(ButtonReleased(Left))
OnButtonReleased(ax, a, cursor, n, handler, t) ==
    CASE a.tag = "Dragging" -> OnButtonReleasedDragging(ax, a, cursor, n, handler, t)
      [] a.tag = "Picking" ->
            Outcome(Idle(Some(a.now), a.animations), [EmptyShell EXCEPT !.redraw = TRUE])
      [] OTHER -> Outcome(a, [EmptyShell EXCEPT !.redraw = TRUE])

\* ------------------------------------------------- Row::draw / Column::draw
\* The slots draw reads as animations.offsets[i] with no test of i against
\* the length (0-based): in the Dragging arm the dragged child's slot, read
\* inside `for i in 0..child_count` once
\* layout.children().nth(index).unwrap() has found the child.
draw_unchecked_reads(a, n) ==
    IF a.tag = "Dragging" /\ a.index < n THEN {a.index} ELSE {}

\* draw, Dragging: `layout.children().nth(*index)`, which draw unwraps; None
\* is the panic of that unwrap.
draw_drag_bounds(ax, a, n) ==
    IF a.index < n THEN Some(Layout(ax, n).children[a.index + 1]) ELSE None

\* The offset draw gives child i (0-based) from its slot:
\* `if i < animations.offsets.len() { .. } else { 0.0 }`; in Idle a slot at
\* rest counts as 0. Picking, and Idle without a timestamp, draw no offsets.
draw_slot_offset(a, i) ==
    IF a.tag = "Picking" \/ (a.tag = "Idle" /\ ~IsSome(a.now)) THEN 0
    ELSE IF i < Len(a.animations)
         THEN IF a.tag = "Idle" /\ ~is_animating(a.animations[i + 1], Unwrap(a.now))
              THEN 0
              ELSE a.animations[i + 1].value
    ELSE 0

\* The slots the Dragging arms of update touch: `for i in
\* 0..animations.offsets.len()`.
update_slot_reads(a) == 0..(Len(a.animations) - 1)

\* The events update tells apart; "Other" is any event of the `_ => {}` arm.
EventKinds == {"RedrawRequested", "ButtonPressed", "CursorMoved", "ButtonReleased",
               "Other"}

\* An update that runs the drag logic although a child captured the event.
update_IgnoresCapture(ax, a, kind, cursor, n, handler, t, child_captured) ==
    LET out == CASE kind = "RedrawRequested" -> OnRedrawRequested(a, t)
                 [] kind = "ButtonPressed" -> OnButtonPressed(ax, a, cursor, n, handler, t)
                 [] kind = "CursorMoved" -> OnCursorMoved(ax, a, cursor, n, handler, t)
                 [] kind = "ButtonReleased" -> OnButtonReleased(ax, a, cursor, n, handler, t)
                 [] OTHER -> Outcome(a, EmptyShell)
    IN  IF child_captured THEN [out EXCEPT !.shell.captured = TRUE] ELSE out

\* Row::update / Column::update. The event goes to every child first
\* (child_captured: one of them called shell.capture_event()); if the event
\* is captured the container returns before it looks at it, otherwise the
\* arm of the event runs.
update(ax, a, kind, cursor, n, handler, t, child_captured) ==
    IF child_captured
    THEN Outcome(a, [EmptyShell EXCEPT !.captured = TRUE])
    ELSE CASE kind = "RedrawRequested" -> OnRedrawRequested(a, t)
           [] kind = "ButtonPressed" -> OnButtonPressed(ax, a, cursor, n, handler, t)
           [] kind = "CursorMoved" -> OnCursorMoved(ax, a, cursor, n, handler, t)
           [] kind = "ButtonReleased" -> OnButtonReleased(ax, a, cursor, n, handler, t)
           [] OTHER -> Outcome(a, EmptyShell)

\* ---------------------------------------------------------------- MouseArea
\* widget/mouse_area.rs.  The widget is the set of its handlers that are
\* Some; a message is the handler that made it and the argument it got.
AreaHandlers ==
    {"on_press", "on_release", "on_double_click", "on_enter", "on_move", "on_exit"}
OtherHandlers ==
    {"on_right_press", "on_right_release", "on_middle_press", "on_middle_release",
     "on_scroll"}

Message(handler, argument) == [type |-> handler, argument |-> argument]

\* State::default()
State_default ==
    [is_hovered |-> FALSE,
     bounds |-> [x |-> 0, y |-> 0, width |-> 0, height |-> 0],
     cursor_position |-> None,
     previous_click |-> None]

\* a MouseArea without handlers before its first update
NoArea == [widget |-> {}, state |-> State_default, last |-> "None", shell |-> EmptyShell]

is_over(cursor, bounds) == IsSome(position_over(cursor, bounds))

\* cursor.position_in(bounds): the position relative to the bounds
position_in(cursor, bounds) ==
    IF is_over(cursor, bounds)
    THEN Some([x |-> Unwrap(cursor).x - bounds.x, y |-> Unwrap(cursor).y - bounds.y])
    ELSE None

\* mouse::click::Kind::next
Kind_next(kind) ==
    CASE kind = "Single" -> "Double"
      [] kind = "Double" -> "Triple"
      [] kind = "Triple" -> "Double"

is_consecutive_IgnoresTime(click, new_position, time) ==
    (click.position.x - new_position.x) * (click.position.x - new_position.x)
        + (click.position.y - new_position.y) * (click.position.y - new_position.y)
    < 6 * 6

\* mouse::Click::is_consecutive: less than 6 px away and at most 300 ms
\* later; a click's time is Now until that much time has passed
is_consecutive(click, new_position, time) ==
    /\ (click.position.x - new_position.x) * (click.position.x - new_position.x)
          + (click.position.y - new_position.y) * (click.position.y - new_position.y)
       < 6 * 6
    /\ click.time - time < 1

\* mouse::Click::new for the left button
Click_new(position, previous, time) ==
    [kind |-> IF IsSome(previous) /\ is_consecutive(Unwrap(previous), position, time)
              THEN Kind_next(Unwrap(previous).kind)
              ELSE "Single",
     position |-> position,
     time |-> time]

\* update, hover tracking: the new State and the messages published
track_hover(widget, state, cursor, bounds) ==
    IF state.cursor_position # cursor \/ state.bounds # bounds
    THEN LET was_hovered == state.is_hovered
             is_hovered == is_over(cursor, bounds)
             position == position_in(cursor, bounds)
         IN  [state |-> [state EXCEPT !.is_hovered = is_hovered,
                                      !.cursor_position = cursor,
                                      !.bounds = bounds],
              published |->
                  IF ~IsSome(position) THEN <<>>
                  ELSE IF "on_enter" \in widget /\ is_hovered /\ ~was_hovered
                  THEN <<Message("on_enter", Unwrap(position))>>
                  ELSE IF "on_move" \in widget /\ is_hovered
                  THEN <<Message("on_move", Unwrap(position))>>
                  ELSE IF "on_exit" \in widget /\ ~is_hovered /\ was_hovered
                  THEN <<Message("on_exit", Unwrap(position))>>
                  ELSE <<>>]
    ELSE [state |-> state, published |-> <<>>]

\* the arm of a button press or release with one handler `handler`
on_button(widget, handler, position, captures) ==
    IF handler \in widget
    THEN [published |-> <<Message(handler, position)>>, captured |-> captures]
    ELSE [published |-> <<>>, captured |-> FALSE]

\* update, the `match event` with the cursor over the bounds: the new
\* State, the messages published and whether the event was captured.
\* FingerPressed and FingerLifted take the arms of the left button.
on_event(widget, state, kind, position, time) ==
    CASE kind = "LeftPressed" ->
            LET press == on_button(widget, "on_press", position, TRUE)
                new_click == Click_new(position, state.previous_click, time)
            IN  IF "on_double_click" \in widget
                THEN [state |-> [state EXCEPT !.previous_click = Some(new_click)],
                      published |->
                          press.published \o
                              (IF new_click.kind = "Double"
                               THEN <<Message("on_double_click", position)>>
                               ELSE <<>>),
                      captured |-> TRUE]
                ELSE [state |-> state, published |-> press.published,
                      captured |-> press.captured]
      [] kind = "LeftReleased" ->
            [state |-> state, captured |-> FALSE,
             published |-> on_button(widget, "on_release", position, FALSE).published]
      [] kind = "RightPressed" ->
            [state |-> state, captured |-> "on_right_press" \in widget,
             published |-> on_button(widget, "on_right_press", position, TRUE).published]
      [] kind = "RightReleased" ->
            [state |-> state, captured |-> FALSE,
             published |-> on_button(widget, "on_right_release", position, FALSE).published]
      [] kind = "MiddlePressed" ->
            [state |-> state, captured |-> "on_middle_press" \in widget,
             published |-> on_button(widget, "on_middle_press", position, TRUE).published]
      [] kind = "MiddleReleased" ->
            [state |-> state, captured |-> FALSE,
             published |-> on_button(widget, "on_middle_release", position, FALSE).published]
      [] kind = "WheelScrolled" ->
            [state |-> state, captured |-> "on_scroll" \in widget,
             published |-> on_button(widget, "on_scroll", "delta", TRUE).published]
      [] OTHER -> [state |-> state, captured |-> FALSE, published |-> <<>>]

\* MouseArea::update: the content first; unless it captured the event, the
\* free function update.  The result is the MouseArea after the update.
MouseArea_update(widget, state, kind, cursor, bounds, time, content_captured) ==
    IF content_captured
    THEN [widget |-> widget, state |-> state, last |-> "None",
          shell |-> [EmptyShell EXCEPT !.captured = TRUE]]
    ELSE LET hover == track_hover(widget, state, cursor, bounds)
             position == position_in(cursor, bounds)
         IN  IF ~is_over(cursor, bounds)
             THEN [widget |-> widget, state |-> hover.state, last |-> kind,
                   shell |-> [EmptyShell EXCEPT !.published = hover.published]]
             ELSE LET out == on_event(widget, hover.state, kind, Unwrap(position), time)
                  IN  [widget |-> widget, state |-> out.state, last |-> kind,
                       shell |-> [EmptyShell EXCEPT
                                     !.published = hover.published \o out.published,
                                     !.captured = out.captured]]

\* ------------------------------------------------------------ the widget
Step(kind, from) == [kind |-> kind, from |-> from]

NoTargetIn == [axis |-> "Row", leading |-> 0, padding |-> 0, spacing |-> 0,
               extents |-> <<>>, c1 |-> 0, c2 |-> 0]

\* Row::state: Idle, one zero slot per child.
Init ==
    /\ axis \in Axes
    /\ on_drag \in BOOLEAN
    /\ children \in 0..MaxChildren
    /\ action = Idle(Some(Now), with_capacity(<<>>, children))
    /\ event = Step("None", "Idle")
    /\ shell = EmptyShell
    /\ targetIn = NoTargetIn
    /\ targetOut = None
    /\ area = NoArea

\* update, when no child captured the event: the arm of the event runs.
Update(kind, out) ==
    /\ event' = Step(kind, action.tag)
    /\ action' = out.action
    /\ shell' = out.shell
    /\ UNCHANGED <<axis, on_drag, children, targetIn, targetOut, area>>

\* update of an event that a child captured: the container matched on none.
ChildCaptured ==
    \E kind \in EventKinds, cursor \in Cursors(axis) :
        Update("None",
               update(axis, action, kind, cursor, children, on_drag, Now, TRUE))

RedrawRequested ==
    Update("RedrawRequested",
           update(axis, action, "RedrawRequested", None, children, on_drag, Now, FALSE))

Pressed(cursor) ==
    Update("ButtonPressed",
           update(axis, action, "ButtonPressed", cursor, children, on_drag, Now, FALSE))

ButtonPressed == \E cursor \in Cursors(axis) : Pressed(cursor)

Moved(cursor) ==
    Update("CursorMoved",
           update(axis, action, "CursorMoved", cursor, children, on_drag, Now, FALSE))

CursorMoved == \E cursor \in Cursors(axis) : Moved(cursor)

Released(cursor) ==
    Update("ButtonReleased",
           update(axis, action, "ButtonReleased", cursor, children, on_drag, Now, FALSE))

ButtonReleased == \E cursor \in Cursors(axis) : Released(cursor)

\* any other event: the `_ => {}` arm
OtherEvent ==
    Update("None",
           update(axis, action, "Other", None, children, on_drag, Now, FALSE))

\* Row::diff on a rebuilt widget with n children
Diff ==
    \E n \in 0..MaxChildren :
        /\ children' = n
        /\ action' = [action EXCEPT !.animations = with_capacity(@, n)]
        /\ event' = Step("None", action.tag)
        /\ shell' = EmptyShell
        /\ UNCHANGED <<axis, on_drag, targetIn, targetOut, area>>

\* one transition duration passes: every stored Instant is that much older
Tick ==
    /\ action' = [action EXCEPT
                     !.now = IF action.tag = "Idle" THEN ElapseOption(@) ELSE Elapse(@),
                     !.animations = [i \in 1..Len(action.animations) |->
                                        [action.animations[i] EXCEPT
                                            !.start = ElapseOption(@)]]]
    /\ event' = Step("None", action.tag)
    /\ shell' = EmptyShell
    /\ UNCHANGED <<axis, on_drag, children, targetIn, targetOut, area>>

Next ==
    \/ RedrawRequested
    \/ ButtonPressed
    \/ CursorMoved
    \/ ButtonReleased
    \/ OtherEvent
    \/ ChildCaptured
    \/ Diff
    \/ Tick

Spec == Init /\ [][Next]_vars

\* --------------------------------------- compute_target_index on its own
\* A specification that draws a layout and two cursor coordinates and
\* applies compute_target_index to both.
MaxExtent == 2        \* child extents of the drawn layouts are 0..MaxExtent
MaxCoord == 8         \* cursor coordinates of the drawn inputs are 0..MaxCoord

RECURSIVE SeqsUpTo(_, _)
SeqsUpTo(S, n) ==
    IF n = 0 THEN {<<>>}
    ELSE LET shorter == SeqsUpTo(S, n - 1)
         IN  shorter \cup {Append(q, e) : q \in {r \in shorter : Len(r) = n - 1}, e \in S}

RECURSIVE PackedStart(_, _)
PackedStart(in, i) ==
    IF i = 1 THEN in.leading + in.padding
    ELSE PackedStart(in, i - 1) + in.extents[i - 1] + in.spacing

RECURSIVE SumExtents(_)
SumExtents(q) == IF q = <<>> THEN 0 ELSE Head(q) + SumExtents(Tail(q))

\* The layout node of a container at `leading` with the given padding and
\* spacing whose children have the given main-axis extents.
PackedLayout(in) ==
    LET n == Len(in.extents)
        content == SumExtents(in.extents) + in.spacing * saturating_sub(n, 1)
    IN  [bounds |-> Rect(in.axis, in.leading, 0, content + 2 * in.padding, 1),
         children |-> [i \in 1..n |->
                         Rect(in.axis, PackedStart(in, i), 0, in.extents[i], 1)]]

TargetOf(in, c) ==
    compute_target_index(in.axis, Pack(in.axis, c, 0), PackedLayout(in), Len(in.extents))

InitTarget ==
    /\ targetIn \in {in \in [axis : Axes, leading : 0..1, padding : 0..1,
                              spacing : 0..1,
                              extents : SeqsUpTo(0..MaxExtent, MaxChildren),
                              c1 : 0..MaxCoord, c2 : 0..MaxCoord] : in.c1 <= in.c2}
    /\ targetOut = None
    /\ axis = "Row"
    /\ on_drag = FALSE
    /\ children = 0
    /\ action = Idle(Some(Now), <<>>)
    /\ event = Step("None", "Idle")
    /\ shell = EmptyShell
    /\ area = NoArea

ComputeTarget ==
    /\ targetOut = None
    /\ targetOut' = Some([t1 |-> TargetOf(targetIn, targetIn.c1),
                           t2 |-> TargetOf(targetIn, targetIn.c2)])
    /\ UNCHANGED <<targetIn, axis, on_drag, children, action, event, shell, area>>

NextTarget == ComputeTarget

SpecTarget == InitTarget /\ [][NextTarget]_vars

\* ------------------------------------------- the application's reordering
\* examples/drag.rs, App::update on Message::Reorder(DragEvent::Dropped):
\* `let item = self.elements.remove(index);
\*  self.elements.insert(target_index, item);`
\* Vec::remove panics for index >= len, Vec::insert for index > len.
Vec_remove(v, i) == [j \in 1..(Len(v) - 1) |-> IF j <= i THEN v[j] ELSE v[j + 1]]

Vec_insert(v, i, x) ==
    [j \in 1..(Len(v) + 1) |-> IF j <= i THEN v[j] ELSE IF j = i + 1 THEN x ELSE v[j - 1]]

\* A reordering that inserts the item before it removes it.
Reorder_InsertsFirst(elements, index, target_index) ==
    IF index >= Len(elements) \/ target_index > Len(elements)
    THEN [panicked |-> TRUE, elements |-> elements]
    ELSE [panicked |-> FALSE,
          elements |-> Vec_remove(Vec_insert(elements, target_index, elements[index + 1]),
                                  index)]

Reorder(elements, index, target_index) ==
    IF index >= Len(elements) \/ target_index > Len(elements) - 1
    THEN [panicked |-> TRUE, elements |-> elements]
    ELSE [panicked |-> FALSE,
          elements |-> Vec_insert(Vec_remove(elements, index), target_index,
                                  elements[index + 1])]

\* A specification that draws a container of n >= 1 children showing the
\* items 1..n, a press and a release position, and applies to the items the
\* Dropped event of that drag: index from the press position, target_index
\* from the release position, both against the same layout.
InitReorder ==
    /\ InitTarget
    /\ Len(targetIn.extents) >= 1

DropAndReorder ==
    /\ targetOut = None
    /\ \E backwards \in BOOLEAN :
          LET press == IF backwards THEN targetIn.c2 ELSE targetIn.c1
              release == IF backwards THEN targetIn.c1 ELSE targetIn.c2
              index == TargetOf(targetIn, press)
              target_index == TargetOf(targetIn, release)
              elements == [i \in 1..Len(targetIn.extents) |-> i]
          IN  targetOut' = Some([dropped |-> Dropped(index, target_index),
                                 before |-> elements,
                                 after |-> Reorder(elements, index, target_index)])
    /\ UNCHANGED <<targetIn, axis, on_drag, children, action, event, shell, area>>

NextReorder == DropAndReorder

SpecReorder == InitReorder /\ [][NextReorder]_vars

\* ----------------------------------------------------------- flex layout
\* layout/flex.rs.  Lengths are whole numbers of 1/Unit of a pixel and the
\* drawn inputs are whole pixels, so that every division resolve makes
\* (by a total weight, by 2, by a child count +-1) is exact: f32 arithmetic
\* is modelled as exact arithmetic.
MaxItems == 2         \* most children with flex properties of a drawn input
MaxPlain == 3         \* most children of a drawn input that varies the container
MaxWeight == 2        \* grow and shrink weights are 0..MaxWeight
MaxSpace == 6         \* limits.max() is MaxSpace x (MaxSpace + 1) pixels

RECURSIVE Factorial(_)
Factorial(n) == IF n <= 1 THEN 1 ELSE n * Factorial(n - 1)

Unit == 2 * Factorial(MaxWeight + MaxItems - 1) * Factorial(MaxPlain + 1)

Px(k) == k * Unit

Max2(a, b) == IF a >= b THEN a ELSE b
Min2(a, b) == IF a <= b THEN a ELSE b

Size(w, h) == [width |-> w, height |-> h]
Size_ZERO == Size(0, 0)
Point(x, y) == [x |-> x, y |-> y]

Length_Shrink == [tag |-> "Shrink", px |-> 0]
Length_Fill == [tag |-> "Fill", px |-> 0]
Length_Fixed(px) == [tag |-> "Fixed", px |-> px]

\* Length::fluid().is_fill(): Fill or FillPortion
is_fill(length) == length.tag = "Fill"

Padding(top, right, bottom, left) ==
    [top |-> top, right |-> right, bottom |-> bottom, left |-> left]
Padding_horizontal(p) == p.left + p.right
Padding_vertical(p) == p.top + p.bottom

\* iced's Limits: a minimum and a maximum Size
Limits_new(min, max) == [min |-> min, max |-> max]

\* amount.min(max).max(min)
Clamp(amount, min, max) == Max2(Min2(amount, max), min)

\* Limits::width / Limits::height: a Fixed length pins both bounds
Limits_width(l, width) ==
    IF width.tag = "Fixed"
    THEN LET new_width == Clamp(width.px, l.min.width, l.max.width)
         IN  [l EXCEPT !.min.width = new_width, !.max.width = new_width]
    ELSE l

Limits_height(l, height) ==
    IF height.tag = "Fixed"
    THEN LET new_height == Clamp(height.px, l.min.height, l.max.height)
         IN  [l EXCEPT !.min.height = new_height, !.max.height = new_height]
    ELSE l

\* Limits::shrink by a Padding
Limits_shrink(l, padding) ==
    LET h == Padding_horizontal(padding)
        v == Padding_vertical(padding)
    IN  Limits_new(Size(Max2(l.min.width - h, 0), Max2(l.min.height - v, 0)),
                   Size(Max2(l.max.width - h, 0), Max2(l.max.height - v, 0)))

resolve_length(length, intrinsic, min, max) ==
    CASE length.tag = "Fill" -> max
      [] length.tag = "Fixed" -> Clamp(length.px, min, max)
      [] OTHER -> Clamp(intrinsic, min, max)

\* Limits::resolve
Limits_resolve(l, width, height, intrinsic_size) ==
    Size(resolve_length(width, intrinsic_size.width, l.min.width, l.max.width),
         resolve_length(height, intrinsic_size.height, l.min.height, l.max.height))

FlexAxes == {"Horizontal", "Vertical"}
Axis_main(ax, size) == IF ax = "Horizontal" THEN size.width ELSE size.height
Axis_cross(ax, size) == IF ax = "Horizontal" THEN size.height ELSE size.width
Axis_pack(ax, main, cross) == IF ax = "Horizontal" THEN <<main, cross>> ELSE <<cross, main>>

JustifyContents == {"Start", "End", "Center", "SpaceBetween", "SpaceAround", "SpaceEvenly"}
FlexAlignments == {"Start", "End", "Center", "Stretch"}

\* A FlexChild: its FlexProperties and its content, a widget with a width
\* and a height Length whose layout resolves them against its intrinsic size.
FlexProperties(basis, grow, shrink) == [basis |-> basis, grow |-> grow, shrink |-> shrink]
FlexChild(content, properties) == [content |-> content, properties |-> properties]
Content(width, height, intrinsic) ==
    [width |-> width, height |-> height, intrinsic |-> intrinsic]

\* content.layout(tree, renderer, &limits).size()
Widget_layout(content, limits) ==
    Limits_resolve(limits, content.width, content.height, content.intrinsic)

\* A compute_spacing whose SpaceBetween divides by the child count.
compute_spacing_BetweenByCount(justify, available, count) ==
    CASE justify = "Start" -> <<0, 0>>
      [] justify = "End" -> <<available, 0>>
      [] justify = "Center" -> <<available \div 2, 0>>
      [] justify = "SpaceBetween" -> <<0, available \div count>>
      [] justify = "SpaceAround" ->
            LET space == available \div count IN <<space \div 2, space>>
      [] justify = "SpaceEvenly" ->
            LET space == available \div (count + 1) IN <<space, space>>

\* compute_spacing: (initial_offset, item_spacing)
compute_spacing(justify, available, count) ==
    CASE justify = "Start" -> <<0, 0>>
      [] justify = "End" -> <<available, 0>>
      [] justify = "Center" -> <<available \div 2, 0>>
      [] justify = "SpaceBetween" ->
            IF count <= 1 THEN <<0, 0>> ELSE <<0, available \div (count - 1)>>
      [] justify = "SpaceAround" ->
            LET space == available \div count IN <<space \div 2, space>>
      [] justify = "SpaceEvenly" ->
            LET space == available \div (count + 1) IN <<space, space>>

\* first pass: the basis of a child
flex_basis(ax, child) ==
    IF IsSome(child.properties.basis) THEN Unwrap(child.properties.basis)
    ELSE LET length == IF ax = "Horizontal" THEN child.content.width
                       ELSE child.content.height
         IN  IF length.tag = "Fixed" THEN length.px ELSE 0

\* first pass: whether the child's own cross length is Fill
wants_stretch(ax, child) ==
    IF ax = "Horizontal" THEN is_fill(child.content.height)
    ELSE is_fill(child.content.width)

RECURSIVE MaxCross(_, _)
MaxCross(ax, sizes) ==
    IF sizes = <<>> THEN 0
    ELSE Max2(MaxCross(ax, Tail(sizes)), Axis_cross(ax, Head(sizes)))

\* the container's cross size
container_cross(ax, limits, width, height, natural) ==
    LET policy == IF ax = "Horizontal" THEN height ELSE width
    IN  IF is_fill(policy) THEN Axis_cross(ax, limits.max) ELSE MaxCross(ax, natural)

\* A second pass that hands the whole available space to every child.
main_size_IgnoresWeights(natural_main, available_space, properties, total_grow, total_shrink) ==
    IF available_space > 0 THEN natural_main + available_space ELSE 0

\* A second pass that splits the available space by the total weight only.
main_size_ForgetsOwnWeight(natural_main, available_space, properties, total_grow, total_shrink) ==
    LET is_growing == available_space > 0
    IN  IF is_growing /\ properties.grow > 0 /\ total_grow > 0
        THEN natural_main + available_space \div total_grow
        ELSE IF ~is_growing /\ properties.shrink > 0 /\ total_shrink > 0
        THEN natural_main
                - Min2((0 - available_space) \div total_shrink, natural_main)
        ELSE natural_main

\* A second pass that shrinks without the clamp to the natural size.
main_size_Unclamped(natural_main, available_space, properties, total_grow, total_shrink) ==
    LET is_growing == available_space > 0
    IN  IF is_growing /\ properties.grow > 0 /\ total_grow > 0
        THEN natural_main + (available_space * properties.grow) \div total_grow
        ELSE IF ~is_growing /\ properties.shrink > 0 /\ total_shrink > 0
        THEN natural_main
                - ((0 - available_space) * properties.shrink) \div total_shrink
        ELSE natural_main

\* second pass: the main size a child gets
main_size(natural_main, available_space, properties, total_grow, total_shrink) ==
    LET is_growing == available_space > 0
    IN  IF is_growing /\ properties.grow > 0 /\ total_grow > 0
        THEN natural_main + (available_space * properties.grow) \div total_grow
        ELSE IF ~is_growing /\ properties.shrink > 0 /\ total_shrink > 0
        THEN natural_main
                - Min2(((0 - available_space) * properties.shrink) \div total_shrink,
                       natural_main)
        ELSE natural_main

\* second pass: the limits of a child's final layout
child_limits(ax, child, natural, main, should_stretch, cross) ==
    LET cross_size == IF should_stretch THEN cross ELSE Axis_cross(ax, natural)
        wh == Axis_pack(ax, main, cross_size)
        min_size == Axis_pack(ax, 0, cross_size)
    IN  IF should_stretch
        THEN Limits_height(
                 Limits_width(Limits_new(Size(min_size[1], min_size[2]),
                                         Size(wh[1], wh[2])),
                              child.content.width),
                 child.content.height)
        ELSE Limits_new(Size_ZERO, Size(wh[1], wh[2]))

\* position nodes: the main-axis position of child i (from 1)
RECURSIVE main_position(_, _, _, _, _)
main_position(ax, sizes, start, gap, i) ==
    IF i = 1 THEN start
    ELSE main_position(ax, sizes, start, gap, i - 1)
            + Axis_main(ax, sizes[i - 1]) + gap

\* position nodes: the cross-axis position of a child
cross_offset(align_items, padding, cross, child_cross) ==
    CASE align_items = "Start" -> padding.top
      [] align_items = "End" -> padding.top + cross - child_cross
      [] align_items = "Center" -> padding.top + (cross - child_cross) \div 2
      [] align_items = "Stretch" -> padding.top

\* A resolve that takes the padding off the limits of an empty container.
resolve_ShrinksEmpty(ax, limits_in, width, height, padding, spacing, justify_content, align_items, items) ==
    [size |-> Limits_resolve(Limits_shrink(limits_in, padding), width, height, Size_ZERO),
     children |-> <<>>, natural |-> <<>>, main_sizes |-> <<>>,
     spacing |-> None, content |-> None]

\* resolve.  The result is the Node (size, children) together with what the
\* passes computed on the way: the children's natural sizes, the main sizes
\* of the second pass, the pair compute_spacing returned and the size handed
\* to the last limits.resolve.
resolve(ax, limits_in, width, height, padding, spacing, justify_content, align_items, items) ==
    IF items = <<>>
    THEN [size |-> Limits_resolve(limits_in, width, height, Size_ZERO),
          children |-> <<>>, natural |-> <<>>, main_sizes |-> <<>>,
          spacing |-> None, content |-> None]
    ELSE
    LET n == Len(items)
        limits == Limits_shrink(Limits_height(Limits_width(limits_in, width), height),
                                padding)
        total_spacing == spacing * saturating_sub(n, 1)
        total_basis == SumExtents([i \in 1..n |-> flex_basis(ax, items[i])])
        total_grow == SumExtents([i \in 1..n |-> items[i].properties.grow])
        total_shrink == SumExtents([i \in 1..n |-> items[i].properties.shrink])
        natural == [i \in 1..n |->
                       Widget_layout(items[i].content,
                                     Limits_new(Size_ZERO, limits.max))]
        cross == container_cross(ax, limits, width, height, natural)
        container_main == Axis_main(ax, limits.max)
        available_space == container_main - total_spacing - total_basis
        mains == [i \in 1..n |->
                     main_size(Axis_main(ax, natural[i]), available_space,
                               items[i].properties, total_grow, total_shrink)]
        final_nodes == [i \in 1..n |->
                           Widget_layout(items[i].content,
                                         child_limits(ax, items[i], natural[i], mains[i],
                                                      wants_stretch(ax, items[i])
                                                          \/ align_items = "Stretch",
                                                      cross))]
        total_main == SumExtents([i \in 1..n |-> Axis_main(ax, final_nodes[i])])
                          + total_spacing
        available_main == Max2(container_main - total_main, 0)
        offsets == compute_spacing(justify_content, available_main, n)
        start == padding.left + offsets[1]
        gap == spacing + offsets[2]
        position(i) ==
            LET xy == Axis_pack(ax, main_position(ax, final_nodes, start, gap, i),
                                cross_offset(align_items, padding, cross,
                                             Axis_cross(ax, final_nodes[i])))
            IN  Point(xy[1], xy[2])
        main == main_position(ax, final_nodes, start, gap, n)
                    + Axis_main(ax, final_nodes[n])
        final_main == IF justify_content = "Center" THEN container_main
                      ELSE main + padding.right
        final_cross == cross + Padding_vertical(padding)
        wh == Axis_pack(ax, final_main, final_cross)
    IN  [size |-> Limits_resolve(limits, Length_Fixed(wh[1]), Length_Fixed(wh[2]),
                                 Size(wh[1], wh[2])),
         children |-> [i \in 1..n |-> [position |-> position(i), size |-> final_nodes[i]]],
         natural |-> natural,
         main_sizes |-> mains,
         spacing |-> Some(offsets),
         content |-> Some(Size(wh[1], wh[2]))]

\* ------------------------------------------------ flex::resolve on its own
\* A specification that draws the arguments of one call of resolve and
\* applies it.  Three families of arguments are drawn: no children, with the
\* container varied in full; plain children (no basis, weights 0), with the
\* container varied in full; and children with flex properties, the first
\* varied in full and followed by siblings that fill without weights or
\* are fixed with weights 1, in a container without padding that packs at
\* the start.  The scenario of spec.md section 8 is drawn as well.
FlexLengths == {Length_Shrink, Length_Fill, Length_Fixed(Px(3))}
\* no padding, one padded side, every side padded
FlexPaddings ==
    {Padding(0, 0, 0, 0), Padding(Px(1), 0, 0, 0), Padding(0, Px(1), 0, 0),
     Padding(0, 0, Px(1), 0), Padding(0, 0, 0, Px(1)), Padding(Px(1), Px(1), Px(1), Px(1))}
FlexLimits(min) == Limits_new(Size(min, min), Size(Px(MaxSpace), Px(MaxSpace + 1)))

FlexInput(ax, limits, width, height, padding, spacing, justify, align, items) ==
    [axis |-> ax, limits |-> limits, width |-> width, height |-> height,
     padding |-> padding, spacing |-> spacing, justify |-> justify,
     align |-> align, items |-> items]

NoProperties == FlexProperties(None, 0, 0)
PlainChildren ==
    {FlexChild(Content(Length_Fixed(Px(1)), Length_Fixed(Px(2)), Size_ZERO), NoProperties),
     FlexChild(Content(Length_Fixed(Px(2)), Length_Fixed(Px(1)), Size_ZERO), NoProperties)}

ChildLengths == {Length_Shrink, Length_Fill, Length_Fixed(Px(2))}
FlexChildren ==
    {FlexChild(Content(w, h, Size(Px(1), Px(1))), FlexProperties(basis, grow, shrink)) :
        w \in ChildLengths, h \in ChildLengths, basis \in {None, Some(Px(4))},
        grow \in 0..MaxWeight, shrink \in 0..MaxWeight}
Siblings ==
    {FlexChild(Content(Length_Fill, Length_Fill, Size_ZERO), NoProperties),
     FlexChild(Content(Length_Fixed(Px(2)), Length_Fixed(Px(2)), Size_ZERO),
               FlexProperties(None, 1, 1))}

FlexEmptyInputs ==
    {FlexInput(ax, FlexLimits(min), w, h, p, s, j, a, <<>>) :
        ax \in FlexAxes, min \in {0, Px(1)}, w \in FlexLengths, h \in FlexLengths,
        p \in FlexPaddings, s \in {0, Px(1)}, j \in JustifyContents, a \in FlexAlignments}

FlexPlacingInputs ==
    {FlexInput(ax, FlexLimits(0), l, l, p, s, j, a, items) :
        ax \in FlexAxes, l \in FlexLengths, p \in FlexPaddings, s \in {0, Px(1)},
        j \in JustifyContents, a \in FlexAlignments,
        items \in SeqsUpTo(PlainChildren, MaxPlain) \ {<<>>}}

FlexSizingInputs ==
    {FlexInput(ax, FlexLimits(0), l, l, Padding(0, 0, 0, 0), s, "Start", a,
               <<first>> \o rest) :
        ax \in FlexAxes, l \in FlexLengths, s \in {0, Px(1)}, a \in {"Start", "Stretch"},
        first \in FlexChildren, rest \in SeqsUpTo(Siblings, MaxItems - 1)}

\* spec.md section 8: three children 100 wide, spacing 10, container width
\* 400, SpaceBetween, no padding
FlexScenarioInputs ==
    {FlexInput("Horizontal", Limits_new(Size_ZERO, Size(Px(400), Px(100))),
               Length_Fill, Length_Shrink, Padding(0, 0, 0, 0), Px(10),
               "SpaceBetween", "Start",
               [i \in 1..3 |->
                   FlexChild(Content(Length_Fixed(Px(100)), Length_Fixed(Px(100)),
                                     Size_ZERO),
                             NoProperties)])}

InitFlex ==
    /\ targetIn \in FlexEmptyInputs \cup FlexPlacingInputs \cup FlexSizingInputs
                        \cup FlexScenarioInputs
    /\ targetOut = None
    /\ axis = "Row"
    /\ on_drag = FALSE
    /\ children = 0
    /\ action = Idle(Some(Now), <<>>)
    /\ event = Step("None", "Idle")
    /\ shell = EmptyShell
    /\ area = NoArea

Resolve ==
    /\ targetOut = None
    /\ targetOut' = Some(resolve(targetIn.axis, targetIn.limits, targetIn.width,
                                 targetIn.height, targetIn.padding, targetIn.spacing,
                                 targetIn.justify, targetIn.align, targetIn.items))
    /\ UNCHANGED <<targetIn, axis, on_drag, children, action, event, shell, area>>

NextFlex == Resolve

SpecFlex == InitFlex /\ [][NextFlex]_vars

\* ------------------------------------------------------ a MouseArea alone
\* A specification of one MouseArea whose handlers are drawn: any of
\* on_press, on_release, on_double_click, on_enter, on_move and on_exit,
\* with or without the handlers of the other buttons and of the wheel.  Each
\* update gets an event, a cursor and the bounds of the current layout, one
\* of two rectangles each holding one grid point the other does not hold.
AreaEventKinds ==
    {"LeftPressed", "LeftReleased", "RightPressed", "RightReleased",
     "MiddlePressed", "MiddleReleased", "WheelScrolled", "CursorMoved"}

\* layout.bounds(): a narrow area around the first cursor position off the
\* origin, and a wide one around every cursor position off the origin
AreaBounds ==
    {Rect("Row", 1, 0, 2 * GridStep - 1, 1), Rect("Row", 1, 0, MaxMain * GridStep, 1)}

InitArea ==
    /\ area \in {[NoArea EXCEPT !.widget = handlers] :
                    handlers \in SUBSET AreaHandlers \cup {OtherHandlers}}
    /\ targetIn = NoTargetIn
    /\ targetOut = None
    /\ axis = "Row"
    /\ on_drag = FALSE
    /\ children = 0
    /\ action = Idle(Some(Now), <<>>)
    /\ event = Step("None", "Idle")
    /\ shell = EmptyShell

AreaEvent ==
    /\ \E kind \in AreaEventKinds, cursor \in Cursors("Row"), bounds \in AreaBounds,
          content_captured \in BOOLEAN :
          area' = MouseArea_update(area.widget, area.state, kind, cursor, bounds, Now,
                                   content_captured)
    /\ UNCHANGED <<targetIn, targetOut, axis, on_drag, children, action, event, shell>>

\* more than 300 ms pass without an event
AreaTick ==
    /\ IsSome(area.state.previous_click)
    /\ area' = [area EXCEPT !.state.previous_click =
                                Some([Unwrap(@) EXCEPT !.time = Elapse(@)]),
                            !.last = "None",
                            !.shell = EmptyShell]
    /\ UNCHANGED <<targetIn, targetOut, axis, on_drag, children, action, event, shell>>

NextArea ==
    \/ AreaEvent
    \/ AreaTick

SpecArea == InitArea /\ [][NextArea]_vars

\* A specification of the idle easing loop: the container is Idle in any
\* state a drag can leave it in (each slot at rest or in a transition,
\* begun just now or a transition duration ago, to 0 or to a sibling
\* shift), no pointer event arrives, redraw ticks keep arriving and time
\* keeps passing.
IdleSlots ==
    [value : {0 - (ChildExtent(0) + Spacing), 0, ChildExtent(0) + Spacing},
     start : {None, Some(Now), Some(Elapse(Now))}]

InitIdle ==
    /\ axis = "Row"
    /\ on_drag = TRUE
    /\ children \in 0..MaxChildren
    /\ \E now \in {None, Some(Now)}, animations \in [1..children -> IdleSlots] :
          action = Idle(now, animations)
    /\ event = Step("None", "Idle")
    /\ shell = EmptyShell
    /\ targetIn = NoTargetIn
    /\ targetOut = None
    /\ area = NoArea

NextIdle ==
    \/ RedrawRequested
    \/ Tick

SpecIdle ==
    InitIdle /\ [][NextIdle]_vars /\ WF_vars(RedrawRequested) /\ WF_vars(Tick)

\* ------------------------------------------------------------------ claims
Published == shell.published
Types(q) == {q[i].type : i \in 1..Len(q)}
ZeroSlot == [value |-> 0, start |-> None]

\* C1: the only Action transitions are Idle -> Picking (a press, handler
\* registered), Picking -> Dragging (a move), Picking -> Idle (a release) and
\* Dragging -> Idle (a release or a move); no event, a press while Picking or
\* Dragging included, makes any other transition.
C1_OnlyNamedTransitions ==
    /\ event.from = "Idle" /\ action.tag # "Idle" =>
            action.tag = "Picking" /\ event.kind = "ButtonPressed" /\ on_drag
    /\ event.from = "Picking" /\ action.tag # "Picking" =>
            \/ action.tag = "Dragging" /\ event.kind = "CursorMoved"
            \/ action.tag = "Idle" /\ event.kind = "ButtonReleased"
    /\ event.from = "Dragging" /\ action.tag # "Dragging" =>
            action.tag = "Idle" /\ event.kind \in {"ButtonReleased", "CursorMoved"}

C3_PressStep(cursor) ==
    on_drag /\ IsSome(position_over(cursor, Layout(axis, children).bounds))
        /\ Pressed(cursor) =>
        /\ shell'.captured
        /\ action'.tag = "Picking"
        /\ action'.index = compute_target_index(axis, Unwrap(cursor),
                                                Layout(axis, children), children)
        /\ action'.origin = Unwrap(cursor)
        /\ Len(action'.animations) = Len(action.animations)
        /\ \A i \in 1..Len(action'.animations) : action'.animations[i] = ZeroSlot

\* C3: a press with a handler registered and the cursor over the bounds is
\* captured and makes the Action Picking, with the index computed from the
\* press position, the press position as origin, and every animation slot
\* reset to 0 with no transition running, as many slots as before.
C3_PressStartsPicking ==
    [][event'.kind = "ButtonPressed" =>
          \A cursor \in Cursors(axis) : C3_PressStep(cursor)]_vars

\* a press over the second of three children
C3_Witness ==
    /\ event.kind = "ButtonPressed" /\ event.from = "Idle"
    /\ action.tag = "Picking" /\ action.index = 1
    /\ Len(action.animations) = 3
    /\ shell.captured

\* the move step of C4, for one cursor
C4_MoveStep(cursor) ==
    Moved(cursor) =>
        LET dx == IF IsSome(cursor) THEN Unwrap(cursor).x - action.origin.x ELSE 0
            dy == IF IsSome(cursor) THEN Unwrap(cursor).y - action.origin.y ELSE 0
            exceeds == IsSome(cursor)
                       /\ dx * dx + dy * dy
                          > DRAG_DEADBAND_DISTANCE * DRAG_DEADBAND_DISTANCE
        IN  /\ (action'.tag = "Dragging") <=> exceeds
            /\ exceeds =>
                  /\ shell'.published = <<Picked(action.index)>>
                  /\ shell'.captured
                  /\ action'.index = action.index
                  /\ action'.origin = action.origin
            /\ ~exceeds => action' = action /\ shell'.published = <<>>

C5_ReleaseStep(cursor) ==
    IsSome(cursor) /\ Released(cursor) =>
        /\ shell'.published =
              <<Dropped(action.index,
                        compute_target_index(axis, Unwrap(cursor),
                                             Layout(axis, children), children))>>
        /\ shell'.captured
        /\ action'.tag = "Idle"

C6_ReleaseStep ==
    action.tag = "Dragging" /\ Released(None) =>
        /\ shell'.published = <<Canceled(action.index)>>
        /\ shell'.captured
        /\ action'.tag = "Idle"

C7_MoveStep ==
    action.tag = "Dragging" /\ Moved(None) =>
        /\ shell'.published = <<Canceled(action.index)>>
        /\ action'.tag = "Idle"
        /\ action'.animations = action.animations
        /\ action'.now = Some(action.now)

C8_ReleaseWhilePickingIsSilent ==
    /\ event.kind = "ButtonReleased" /\ event.from = "Picking" =>
            action.tag = "Idle" /\ Published = <<>>
    /\ action.tag = "Picking" => Published = <<>>

C8_Witness ==
    /\ event.kind = "ButtonReleased" /\ event.from = "Picking"
    /\ action.tag = "Idle"

\* C9: compute_target_index is 0 before the leading edge of the bounds,
\* else the first child whose trailing edge is at or after the cursor, else
\* n - 1 saturating at 0; so it is in 0..n-1 for n >= 1 and 0 for n = 0.
TargetIs(in, c, t) ==
    LET layout == PackedLayout(in)
        n == Len(in.extents)
        trailing(i) == MainPos(in.axis, layout.children[i + 1])
                       + MainExtent(in.axis, layout.children[i + 1])
        reached == {i \in 0..(n - 1) : trailing(i) >= c}
    IN  /\ c < in.leading => t = 0
        /\ c >= in.leading /\ reached # {} =>
              t \in reached /\ \A j \in reached : t <= j
        /\ c >= in.leading /\ reached = {} => t = (IF n = 0 THEN 0 ELSE n - 1)
        /\ n >= 1 => t \in 0..(n - 1)
        /\ n = 0 => t = 0

C9_TargetIndex ==
    IsSome(targetOut) =>
        /\ TargetIs(targetIn, targetIn.c1, Unwrap(targetOut).t1)
        /\ TargetIs(targetIn, targetIn.c2, Unwrap(targetOut).t2)

\* before the edge, and past every child
C9_Witness ==
    /\ IsSome(targetOut)
    /\ Len(targetIn.extents) = 3
    /\ targetIn.c1 < targetIn.leading
    /\ Unwrap(targetOut).t1 = 0
    /\ targetIn.c2 > PackedStart(targetIn, 3) + targetIn.extents[3]
    /\ Unwrap(targetOut).t2 = 2

\* C10: for a fixed layout compute_target_index is monotonic non-decreasing
\* in the cursor's main-axis coordinate.
C10_Monotonic ==
    IsSome(targetOut) /\ targetIn.c1 <= targetIn.c2 =>
        Unwrap(targetOut).t1 <= Unwrap(targetOut).t2

C10_Witness ==
    /\ IsSome(targetOut)
    /\ targetIn.c1 < targetIn.c2
    /\ Unwrap(targetOut).t1 < Unwrap(targetOut).t2

\* C11: when a child captures an event the container's drag logic does not
\* run for it: the Action (variant, index, origin, timestamp, slots) is
\* what it was and the container publishes no DragEvent.
C11_ChildCaptureSkipsDragLogic ==
    [][shell'.captured /\ event'.kind = "None" /\ ChildCaptured =>
          action' = action /\ shell'.published = <<>>]_vars

\* a child captured an event in the middle of a drag
C11_Witness ==
    /\ event.kind = "None" /\ shell.captured
    /\ action.tag = "Dragging" /\ children > 0

\* C12: there are always at least as many animation slots as children; no
\* step lowers the number of slots; and when the number grows the slots
\* there were are unchanged at their indices and the new ones are zero.
C12_SlotsOnlyGrow ==
    /\ [](Len(action.animations) >= children)
    /\ [][LET old == action.animations
              new == action'.animations
          IN  /\ Len(new) >= Len(old)
              /\ Len(new) > Len(old) =>
                    /\ \A i \in 1..Len(old) : new[i] = old[i]
                    /\ \A i \in (Len(old) + 1)..Len(new) : new[i] = ZeroSlot]_vars

\* children were removed while a slot beyond them is in transition
C12_Witness ==
    /\ children < Len(action.animations)
    /\ \E i \in (children + 1)..Len(action.animations) :
          IsSome(action.animations[i].start) /\ action.animations[i].value # 0

\* C13: a redraw tick stores the tick's time; in Idle it requests another
\* redraw iff some slot is animating at that time, in Picking and Dragging
\* it always requests one.
C13_RedrawTick ==
    event.kind = "RedrawRequested" =>
        /\ action.tag = "Idle" =>
              /\ action.now = Some(Now)
              /\ shell.redraw <=> any_animating(action.animations, Now)
        /\ action.tag # "Idle" => action.now = Now /\ shell.redraw

\* a tick in Idle after a drop, while a sibling is still sliding
C13_Witness ==
    /\ event.kind = "RedrawRequested" /\ action.tag = "Idle"
    /\ shell.redraw
    /\ \E i \in 1..Len(action.animations) : action.animations[i].value # 0

\* the move step of C14, for one cursor position
C14_MoveStep(cursor) ==
    Moved(Some(cursor)) =>
        LET index == action.index
            layout == Layout(axis, children)
            target_index == compute_target_index(axis, cursor, layout, children)
            extent == MainExtent(axis, layout.children[index + 1]) + Spacing
            slots == action'.animations
        IN  /\ action'.tag = "Dragging"
            /\ action'.last_cursor = cursor
            /\ shell'.captured /\ shell'.redraw
            /\ \A i \in 0..(Len(slots) - 1) :
                  slots[i + 1].value =
                     IF i = index THEN 1
                     ELSE IF target_index < index /\ target_index <= i /\ i < index
                          THEN extent
                     ELSE IF target_index > index /\ index < i /\ i <= target_index
                          THEN 0 - extent
                     ELSE 0

\* C14: a move while Dragging with a cursor position, the dragged child
\* being one of the children: with target_index computed from the cursor and
\* extent the dragged child's extent plus spacing, every other slot i goes
\* to +extent if target_index <= i < index, to -extent if
\* index < i <= target_index, and to 0 otherwise; the dragged slot goes to 1;
\* last_cursor is the cursor, the event is captured and a redraw requested.
C14_MoveRetargetsSlots ==
    [][action.tag = "Dragging" /\ event'.kind = "CursorMoved"
          /\ action.index < children =>
          \A cursor \in Points(axis) : C14_MoveStep(cursor)]_vars

\* the first of three children dragged past the other two
C14_Witness ==
    /\ event.kind = "CursorMoved" /\ action.tag = "Dragging"
    /\ children = 3 /\ action.index = 0
    /\ action.animations[1].value = 1
    /\ action.animations[2].value < 0 /\ action.animations[3].value < 0

\* C16: from the press that creates Picking until the Action is Idle again
\* the stored index does not change, and every DragEvent published on the
\* way carries it.
C16_IndexFixed ==
    [][action.tag \in {"Picking", "Dragging"} =>
          /\ action'.tag \in {"Picking", "Dragging"} => action'.index = action.index
          /\ \A k \in 1..Len(shell'.published) :
                shell'.published[k].index = action.index]_vars

\* C17: a container with no children is never Dragging.
C17_NoDragWithoutChildren == children = 0 => action.tag # "Dragging"

\* A drag of the same origin index with another history: it began at the
\* position `cursor`, never moved, and saw no layout but the current one.
C18_OtherDrag(cursor) ==
    Dragging(action.index, cursor, cursor, Now, with_capacity(<<>>, children))

\* the move or release step of C18, for one cursor position
C18_Step(cursor) ==
    /\ Released(Some(cursor)) =>
          shell'.published =
             OnButtonReleased(axis, C18_OtherDrag(cursor), Some(cursor),
                              children, on_drag, Now).shell.published
    /\ Moved(Some(cursor)) =>
          LET other == OnCursorMoved(axis, C18_OtherDrag(cursor), Some(cursor),
                                     children, on_drag, Now).action.animations
          IN  \A i \in 1..children : action'.animations[i].value = other[i].value

\* C18: the target index is not cached. What a release while Dragging
\* publishes, and the targets a move gives the children's slots, are those
\* of any other drag with the same origin index at the same cursor position
\* and layout, whatever the earlier moves and layouts were.
C18_TargetNotCached ==
    [][action.tag = "Dragging" /\ event'.kind \in {"CursorMoved", "ButtonReleased"} =>
          \A cursor \in Points(axis) : C18_Step(cursor)]_vars

\* a drop after children were removed during the drag
C18_Witness ==
    /\ event.kind = "ButtonReleased" /\ event.from = "Dragging"
    /\ Types(Published) = {"Dropped"}
    /\ children = 2 /\ Len(action.animations) = 3
    /\ Published[1].target_index = 1

C20_SlotReadsInRange ==
    \A i \in draw_unchecked_reads(action, children) \cup update_slot_reads(action) :
        i < Len(action.animations)

\* the second of three children is dragged to before the first, which draw
\* shifts by its slot
C20_Witness ==
    /\ action.tag = "Dragging" /\ children = 3 /\ action.index = 1
    /\ draw_unchecked_reads(action, children) = {1}
    /\ draw_slot_offset(action, 0) > 0

C21_PressStep(cursor) ==
    (~on_drag \/ ~IsSome(position_over(cursor, Layout(axis, children).bounds)))
        /\ Pressed(cursor) =>
        /\ action' = action
        /\ shell'.published = <<>>
        /\ ~shell'.captured

\* C21: a left-button press with no drag handler registered, or with the
\* cursor not over the container bounds, leaves the Action as it was
\* (variant, index, animation slots), publishes nothing and does not capture
\* the event.
C21_PressElsewhereIsIgnored ==
    [][event'.kind = "ButtonPressed" =>
          \A cursor \in Cursors(axis) : C21_PressStep(cursor)]_vars

\* a press during a drag, with a handler: the cursor was off the bounds
C21_Witness ==
    /\ on_drag
    /\ event.kind = "ButtonPressed" /\ event.from = "Dragging"
    /\ action.tag = "Dragging"
    /\ shell = EmptyShell

FlexOut == Unwrap(targetOut)

\* a length policy resolved against zero content within [min, max]
C22_Resolved(length, min, max) ==
    CASE length.tag = "Fill" -> max
      [] length.tag = "Fixed" ->
            IF length.px > max THEN max ELSE IF length.px < min THEN min ELSE length.px
      [] length.tag = "Shrink" -> min

\* C22: resolve of an empty child list returns a node without children whose
\* size is the width and height policy resolved against zero content within
\* the given limits, whatever the axis, padding, spacing, justify and align.
C22_EmptyResolves ==
    IsSome(targetOut) /\ targetIn.items = <<>> =>
        /\ FlexOut.children = <<>>
        /\ FlexOut.size.width =
              C22_Resolved(targetIn.width, targetIn.limits.min.width,
                           targetIn.limits.max.width)
        /\ FlexOut.size.height =
              C22_Resolved(targetIn.height, targetIn.limits.min.height,
                           targetIn.limits.max.height)

\* an empty padded container, Fill wide and Shrink high
C22_Witness ==
    /\ IsSome(targetOut)
    /\ targetIn.items = <<>>
    /\ targetIn.padding = Padding(Px(1), Px(1), Px(1), Px(1))
    /\ targetIn.width = Length_Fill /\ targetIn.height = Length_Shrink
    /\ targetIn.limits.min.height = Px(1)
    /\ FlexOut.size = Size(Px(MaxSpace), Px(1))
    /\ FlexOut.children = <<>>

FlexCount == Len(targetIn.items)
NaturalMain(i) == Axis_main(targetIn.axis, FlexOut.natural[i])
FinalMain(i) == Axis_main(targetIn.axis, FlexOut.children[i].size)

\* C23: when every child's grow and shrink weight is 0, the second pass
\* gives each child its natural main size and the child's final node has
\* that main size, whether the available space is positive or negative; so
\* the final main sizes plus the spacing add up to the natural ones plus the
\* spacing.
C23_Conservation ==
    IsSome(targetOut)
        /\ (\A k \in 1..FlexCount : /\ targetIn.items[k].properties.grow = 0
                                    /\ targetIn.items[k].properties.shrink = 0)
    =>  /\ \A i \in 1..FlexCount : /\ FlexOut.main_sizes[i] = NaturalMain(i)
                                   /\ FinalMain(i) = NaturalMain(i)
        /\ SumExtents([i \in 1..FlexCount |-> FinalMain(i)])
              + targetIn.spacing * saturating_sub(FlexCount, 1)
           = SumExtents([i \in 1..FlexCount |-> NaturalMain(i)])
              + targetIn.spacing * saturating_sub(FlexCount, 1)

\* three children 2 px wide and 1 px apart in MaxSpace px: 2 px are missing
C23_Witness ==
    /\ IsSome(targetOut)
    /\ targetIn.axis = "Horizontal"
    /\ targetIn.width = Length_Shrink
    /\ targetIn.padding = Padding(0, 0, 0, 0)
    /\ targetIn.spacing = Px(1)
    /\ FlexCount = 3
    /\ \A i \in 1..3 :
          /\ targetIn.items[i] =
                FlexChild(Content(Length_Fixed(Px(2)), Length_Fixed(Px(1)), Size_ZERO),
                          NoProperties)
          /\ FlexOut.children[i].size.width = Px(2)
    /\ 3 * Px(2) + 2 * Px(1) > Px(MaxSpace)

\* the limits the children are laid out in, and the available space
FlexShrunk ==
    Limits_shrink(Limits_height(Limits_width(targetIn.limits, targetIn.width),
                                targetIn.height),
                  targetIn.padding)
FlexContainerMain == Axis_main(targetIn.axis, FlexShrunk.max)
FlexAvailable ==
    FlexContainerMain - targetIn.spacing * saturating_sub(FlexCount, 1)
        - SumExtents([i \in 1..FlexCount |-> flex_basis(targetIn.axis, targetIn.items[i])])
FlexTotalGrow == SumExtents([i \in 1..FlexCount |-> targetIn.items[i].properties.grow])
FlexTotalShrink == SumExtents([i \in 1..FlexCount |-> targetIn.items[i].properties.shrink])
Added(i) == FlexOut.main_sizes[i] - NaturalMain(i)

Subtracted(i) == NaturalMain(i) - FlexOut.main_sizes[i]

\* the share of the deficit of child i exceeds its natural main size
C25_Clamped(i) ==
    (0 - FlexAvailable) * targetIn.items[i].properties.shrink
        > NaturalMain(i) * FlexTotalShrink

\* C25: in shrinking mode (available <= 0) the second pass subtracts from a
\* child min(natural main size, deficit * shrink_i / total_shrink), nothing
\* when no child has a shrink weight; so no child's computed main size, and
\* no final node's, is below 0, even where the demand exceeds the natural
\* size.
C25_ShrinkFloor ==
    IsSome(targetOut) /\ FlexCount > 0 /\ FlexAvailable <= 0 =>
        \A i \in 1..FlexCount :
            /\ FlexOut.main_sizes[i] >= 0
            /\ FinalMain(i) >= 0
            /\ IF FlexTotalShrink = 0 THEN Subtracted(i) = 0
               ELSE IF C25_Clamped(i) THEN Subtracted(i) = NaturalMain(i)
               ELSE Subtracted(i) * FlexTotalShrink
                       = (0 - FlexAvailable) * targetIn.items[i].properties.shrink

\* a child 1 px wide with shrink weight 2 beside one with weight 1: its two
\* thirds of the deficit are more than its 1 px, and it is left with 0
C25_Witness ==
    /\ IsSome(targetOut)
    /\ FlexCount = 2
    /\ FlexAvailable < 0
    /\ targetIn.items[1].properties.shrink = 2
    /\ targetIn.items[2].properties.shrink = 1
    /\ NaturalMain(1) = Px(1)
    /\ C25_Clamped(1)
    /\ FlexOut.main_sizes[1] = 0
    /\ ~C25_Clamped(2)
    /\ Subtracted(2) > 0

\* what is left of the container's main extent after the final nodes and
\* the spacing between them
FlexLeftover ==
    Max2(FlexContainerMain
            - (SumExtents([i \in 1..FlexCount |-> FinalMain(i)])
                  + targetIn.spacing * saturating_sub(FlexCount, 1)),
         0)

\* C26: for n >= 1 children and leftover = max(0, container_main -
\* used_main), the pair (initial_offset, extra_between) is (0, 0) for Start,
\* (leftover, 0) for End, (leftover/2, 0) for Center, (0, leftover/(n-1))
\* for SpaceBetween and (0, 0) for it when n <= 1, (share/2, share) with
\* share = leftover/n for SpaceAround, and (share, share) with share =
\* leftover/(n+1) for SpaceEvenly.
C26_JustifySpacing ==
    IsSome(targetOut) /\ FlexCount > 0 =>
        LET initial_offset == Unwrap(FlexOut.spacing)[1]
            extra_between == Unwrap(FlexOut.spacing)[2]
            j == targetIn.justify
        IN  /\ j = "Start" => initial_offset = 0 /\ extra_between = 0
            /\ j = "End" => initial_offset = FlexLeftover /\ extra_between = 0
            /\ j = "Center" => 2 * initial_offset = FlexLeftover /\ extra_between = 0
            /\ j = "SpaceBetween" =>
                  /\ initial_offset = 0
                  /\ IF FlexCount <= 1 THEN extra_between = 0
                     ELSE extra_between * (FlexCount - 1) = FlexLeftover
            /\ j = "SpaceAround" =>
                  /\ extra_between * FlexCount = FlexLeftover
                  /\ 2 * initial_offset = extra_between
            /\ j = "SpaceEvenly" =>
                  /\ extra_between * (FlexCount + 1) = FlexLeftover
                  /\ initial_offset = extra_between

\* the scenario: leftover 80, 40 between, children at x = 0, 150, 300
C26_Witness ==
    /\ IsSome(targetOut)
    /\ targetIn \in FlexScenarioInputs
    /\ FlexLeftover = Px(80)
    /\ FlexOut.spacing = Some(<<0, Px(40)>>)
    /\ FlexOut.children[1].position.x = 0
    /\ FlexOut.children[2].position.x = Px(150)
    /\ FlexOut.children[3].position.x = Px(300)

\* the main-axis and the cross-axis coordinate of a child's position
MainPosition(i) ==
    IF targetIn.axis = "Horizontal" THEN FlexOut.children[i].position.x
    ELSE FlexOut.children[i].position.y
CrossPosition(i) ==
    IF targetIn.axis = "Horizontal" THEN FlexOut.children[i].position.y
    ELSE FlexOut.children[i].position.x
FinalCross(i) == Axis_cross(targetIn.axis, FlexOut.children[i].size)

\* the padding before and after the children on the main axis, before them
\* on the cross axis, and on both sides of the cross axis
MainLeading ==
    IF targetIn.axis = "Horizontal" THEN targetIn.padding.left ELSE targetIn.padding.top
MainTrailing ==
    IF targetIn.axis = "Horizontal" THEN targetIn.padding.right
    ELSE targetIn.padding.bottom
CrossLeading ==
    IF targetIn.axis = "Horizontal" THEN targetIn.padding.top ELSE targetIn.padding.left
CrossTotal ==
    IF targetIn.axis = "Horizontal" THEN Padding_vertical(targetIn.padding)
    ELSE Padding_horizontal(targetIn.padding)

\* C27: on either axis the first child's main-axis position is the leading
\* padding of the main axis (left for Horizontal, top for Vertical) plus
\* initial_offset, and each following child's is the previous child's
\* position plus its final main size plus spacing plus extra_between.
C27_MainPositions ==
    IsSome(targetOut) /\ FlexCount > 0 =>
        /\ MainPosition(1) = MainLeading + Unwrap(FlexOut.spacing)[1]
        /\ \A i \in 2..FlexCount :
              MainPosition(i) = MainPosition(i - 1) + FinalMain(i - 1)
                                   + targetIn.spacing + Unwrap(FlexOut.spacing)[2]

FlexContainerCross ==
    container_cross(targetIn.axis, FlexShrunk, targetIn.width, targetIn.height,
                    FlexOut.natural)

\* C28: on either axis each child's cross-axis position is the leading
\* padding of the cross axis (top for Horizontal, left for Vertical) plus 0
\* for Start and Stretch, container_cross - child_cross for End, and half of
\* that for Center.
C28_CrossPositions ==
    IsSome(targetOut) =>
        \A i \in 1..FlexCount :
            LET room == FlexContainerCross - FinalCross(i)
                offset == CrossPosition(i) - CrossLeading
            IN  /\ targetIn.align \in {"Start", "Stretch"} => offset = 0
                /\ targetIn.align = "End" => offset = room
                /\ targetIn.align = "Center" => 2 * offset = room

\* C29: on either axis the size handed to the final limits.resolve has as
\* main size the container's main extent when justify is Center and else
\* the final main-axis cursor plus the trailing padding of the main axis,
\* and as cross size container_cross plus the padding of both sides of the
\* cross axis (vertical for Horizontal, horizontal for Vertical).
C29_FinalSize ==
    IsSome(targetOut) /\ FlexCount > 0 =>
        LET handed == Unwrap(FlexOut.content)
            cursor == MainPosition(FlexCount) + FinalMain(FlexCount)
        IN  /\ Axis_main(targetIn.axis, handed) =
                  IF targetIn.justify = "Center" THEN FlexContainerMain
                  ELSE cursor + MainTrailing
            /\ Axis_cross(targetIn.axis, handed) = FlexContainerCross + CrossTotal

AreaPublished(handler) ==
    {i \in 1..Len(area.shell.published) : area.shell.published[i].type = handler}

\* C30: a MouseArea with an on_exit handler publishes one on_exit message in
\* every update, not captured by the content, in which the cursor goes from
\* inside the bounds to outside them.
C30_ExitPublished ==
    [][("on_exit" \in area.widget /\ area'.last # "None"
            /\ area.state.is_hovered /\ ~area'.state.is_hovered)
       => Cardinality(AreaPublished("on_exit")') = 1]_vars

ClickHandlers == {"on_press", "on_release", "on_double_click"}

\* the messages of the left button in the last update, in publication order
ClickStream ==
    LET clicks == SelectSeq(area.shell.published, LAMBDA m : m.type \in ClickHandlers)
    IN  [i \in 1..Len(clicks) |-> clicks[i].type]

\* C31: a MouseArea with on_press, on_release and on_double_click publishes,
\* in an update not captured by its content and with the cursor over it,
\* on_press for a left press, followed in the same update by on_double_click
\* exactly when the previous click was not itself a double click, is still
\* fresh (no more than 300 ms old) and lies less than 6 px away, and
\* on_release alone for a left release; no other update publishes any of
\* the three.  Two quick clicks at one position therefore give on_press,
\* on_release, on_press, on_double_click, on_release.
C31_ClickStream ==
    [][(ClickHandlers \subseteq area.widget /\ area'.last # "None") =>
          LET previous == area.state.previous_click
              over == is_over(area'.state.cursor_position, area'.state.bounds)
              position == Unwrap(position_in(area'.state.cursor_position,
                                             area'.state.bounds))
              dx == Unwrap(previous).position.x - position.x
              dy == Unwrap(previous).position.y - position.y
              double == /\ IsSome(previous)
                        /\ Unwrap(previous).kind # "Double"
                        /\ Unwrap(previous).time = Now
                        /\ dx * dx + dy * dy < 36
          IN  ClickStream' =
                  CASE area'.last = "LeftPressed" /\ over ->
                          IF double THEN <<"on_press", "on_double_click">>
                          ELSE <<"on_press">>
                    [] area'.last = "LeftReleased" /\ over -> <<"on_release">>
                    [] OTHER -> <<>>]_vars

\* the second of two quick clicks at one position is pressed
C31_Witness ==
    /\ ClickHandlers \subseteq area.widget
    /\ area.last = "LeftPressed"
    /\ ClickStream = <<"on_press", "on_double_click">>

\* C32: the DragEvents of one container follow (Picked (Dropped | Canceled))*.
\* A Picked is unanswered exactly while the Action is Dragging, so: a step
\* from Dragging either stays Dragging with the same index and publishes
\* nothing, or leaves Dragging and publishes one Dropped or Canceled with
\* the index of the Picked; a step from Idle or Picking either does not
\* enter Dragging and publishes nothing, or enters Dragging and publishes
\* one Picked with the index it stores.
C32_Protocol ==
    [][LET q == shell'.published
       IN  IF action.tag = "Dragging"
           THEN \/ /\ q = <<>>
                   /\ action'.tag = "Dragging"
                   /\ action'.index = action.index
                \/ /\ Len(q) = 1
                   /\ q[1].type \in {"Dropped", "Canceled"}
                   /\ q[1].index = action.index
                   /\ action'.tag # "Dragging"
           ELSE \/ /\ q = <<>>
                   /\ action'.tag # "Dragging"
                \/ /\ Len(q) = 1
                   /\ q[1].type = "Picked"
                   /\ action'.tag = "Dragging"
                   /\ q[1].index = action'.index]_vars

\* the state after a move while Dragging, or after a drop
C33_Shifted ==
    \/ event.kind = "CursorMoved" /\ event.from = "Dragging" /\ action.tag = "Dragging"
    \/ /\ event.kind = "ButtonReleased" /\ event.from = "Dragging"
       /\ Len(Published) = 1 /\ Published[1].type = "Dropped"

C33_Index == IF action.tag = "Dragging" THEN action.index ELSE Published[1].index

C33_Target ==
    IF action.tag = "Dragging"
    THEN compute_target_index(axis, action.last_cursor, Layout(axis, children), children)
    ELSE Published[1].target_index

\* where the item of slot i is after 'remove index, insert at target_index'
C33_PositionAfter(i) ==
    LET after == Reorder([k \in 1..children |-> k], C33_Index, C33_Target).elements
    IN  (CHOOSE p \in 1..children : after[p] = i + 1) - 1

\* C33: after a move while Dragging and after a drop, with index and
\* target_index both below the child count n, every slot i < n other than
\* index is targeted to +drag_extent exactly when 'remove index, insert at
\* target_index' moves its item one position later, to -drag_extent exactly
\* when one position earlier, and to 0 exactly when the item stays.
C33_ShiftAgreesWithReorder ==
    C33_Shifted /\ C33_Index < children /\ C33_Target < children =>
        LET extent == drag_extent(axis, Layout(axis, children), C33_Index)
        IN  \A i \in (0..(children - 1)) \ {C33_Index} :
                LET to == action.animations[i + 1].value
                IN  /\ C33_PositionAfter(i) = i + 1 <=> to = extent
                    /\ C33_PositionAfter(i) = i - 1 <=> to = 0 - extent
                    /\ C33_PositionAfter(i) = i <=> to = 0

\* three children, the first one dropped on the last: the other two are
\* sent one extent earlier
C33_Witness ==
    /\ C33_Shifted /\ action.tag = "Idle"
    /\ children = 3 /\ C33_Index = 0 /\ C33_Target = 2
    /\ action.animations[2].value < 0 /\ action.animations[3].value < 0

\* the same input for the container of the other axis: x and y swapped
C34_OtherAxis == IF axis = "Row" THEN "Column" ELSE "Row"
C34_Swap(p) == [x |-> p.y, y |-> p.x]
C34_SwapCursor(cursor) == IF IsSome(cursor) THEN Some(C34_Swap(Unwrap(cursor))) ELSE None
C34_SwapAction(a) ==
    CASE a.tag = "Picking" -> [a EXCEPT !.origin = C34_Swap(@)]
      [] a.tag = "Dragging" -> [a EXCEPT !.origin = C34_Swap(@),
                                        !.last_cursor = C34_Swap(@)]
      [] OTHER -> a

C35_IndexValid ==
    action.tag \in {"Picking", "Dragging"} =>
        /\ action.index < children
        /\ action.tag = "Dragging" => IsSome(draw_drag_bounds(axis, action, children))

\* the drop step of C36, for one cursor position
C36_DropStep(cursor) ==
    Released(Some(cursor)) =>
        LET index == action.index
            layout == Layout(axis, children)
            target_index == compute_target_index(axis, cursor, layout, children)
            extent == MainExtent(axis, layout.children[index + 1]) + Spacing
            before == action.animations
            after == action'.animations
        IN  /\ action'.tag = "Idle"
            /\ Len(after) = Len(before)
            /\ \A i \in 0..(Len(after) - 1) :
                  LET to == IF target_index < index /\ target_index <= i /\ i < index
                            THEN extent
                            ELSE IF target_index > index /\ index < i /\ i <= target_index
                            THEN 0 - extent
                            ELSE 0
                  IN  IF i = index
                      THEN after[i + 1] = [value |-> 0, start |-> None]
                      ELSE IF before[i + 1].value = to
                      THEN after[i + 1] = before[i + 1]
                      ELSE after[i + 1] = [value |-> to, start |-> Some(Now)]

\* C36: a release while Dragging with a cursor position, the dragged child
\* being one of the children, sets the dragged slot to value 0 with no
\* transition in progress, and sends every other slot to the offset of the
\* sibling shift rule by a transition that starts at the release, a slot
\* already going to that offset keeping the transition it has.
C36_DropSnapsDraggedSlot ==
    [][action.tag = "Dragging" /\ event'.kind = "ButtonReleased"
          /\ action.index < children =>
          \A cursor \in Points(axis) : C36_DropStep(cursor)]_vars

\* the first of three children dropped on the last: its slot, at 1 during
\* the drag, is at rest at 0 and the other two are in transition
C36_Witness ==
    /\ event.kind = "ButtonReleased" /\ event.from = "Dragging"
    /\ Published = <<Dropped(0, 2)>>
    /\ children = 3
    /\ action.animations[1] = [value |-> 0, start |-> None]
    /\ action.animations[2].value < 0 /\ IsSome(action.animations[2].start)
    /\ action.animations[3].value < 0 /\ IsSome(action.animations[3].start)

\* C37: a redraw tick changes nothing of the Action but the stored
\* timestamp and publishes nothing; a pointer-move or a left release while
\* Idle, and an event that is none of left press, left release, pointer-move
\* and redraw tick in any state, leave the Action as it is and publish
\* nothing.
C37_NonTransitionsKeepState ==
    [][/\ RedrawRequested =>
             /\ action' = [action EXCEPT !.now = action'.now]
             /\ shell'.published = <<>>
       /\ (CursorMoved \/ ButtonReleased) /\ action.tag = "Idle" =>
             /\ action' = action
             /\ shell'.published = <<>>
       /\ OtherEvent =>
             /\ action' = action
             /\ shell'.published = <<>>]_vars

\* a redraw tick in Idle after a drop, the slots no longer animating: they
\* still hold the offsets of the drop
C37_Witness ==
    /\ event.kind = "RedrawRequested" /\ event.from = "Idle"
    /\ action.now = Some(Now)
    /\ ~shell.redraw
    /\ \E i \in 1..Len(action.animations) : action.animations[i].value # 0

\* C38: from any Idle state, with redraw ticks arriving, time passing and
\* no pointer event, every tick handled while a slot is animating requests
\* a redraw, a tick is eventually handled that requests none, and from some
\* point on no redraw is requested any more.
C38_EasingLoopTerminates ==
    /\ [](event.kind = "RedrawRequested" =>
             (shell.redraw <=> any_animating(action.animations, Now)))
    /\ <>(event.kind = "RedrawRequested" /\ ~shell.redraw)
    /\ <>[](~shell.redraw)

\* a tick handled after the transitions have come to rest: no redraw is
\* requested although a slot holds a transition
C38_Witness ==
    /\ event.kind = "RedrawRequested" /\ action.tag = "Idle"
    /\ ~shell.redraw
    /\ \E i \in 1..Len(action.animations) : IsSome(action.animations[i].start)

\* the final main sizes of the children and the spacing between them
FlexUsedMain ==
    SumExtents([i \in 1..FlexCount |-> FinalMain(i)])
        + targetIn.spacing * saturating_sub(FlexCount, 1)

\* C39: the children are placed in input order along the main axis without
\* overlap, each at or after the previous child's position plus its final
\* main size plus spacing; and when their used main size is no more than
\* the container's main extent, the last child ends at or before the
\* leading padding of the main axis plus that extent, whatever the
\* JustifyContent.
C39_OrderedWithinContainer ==
    IsSome(targetOut) /\ FlexCount > 0 =>
        /\ \A i \in 1..(FlexCount - 1) :
              MainPosition(i + 1) >= MainPosition(i) + FinalMain(i) + targetIn.spacing
        /\ FlexUsedMain <= FlexContainerMain =>
              MainPosition(FlexCount) + FinalMain(FlexCount)
                  <= MainLeading + FlexContainerMain
====
